---- MODULE Spec2Model ----
(***************************************************************************)
(* A model of MPI-rs: the single-slot shared-memory channel of             *)
(* src/mpi2/src/lib.rs (TransferBuffer, Sender, Receiver) used by two      *)
(* processes after a fork, and the fork tree of spawn_processes.           *)
(*                                                                         *)
(* Memory is sequentially consistent at byte granularity: every volatile   *)
(* flag access and every payload byte access is one step of one process.   *)
(***************************************************************************)
EXTENDS Integers, Sequences, FiniteSets, TLC

VARIABLES
    mmap,      \* mmap[c]: the bytes of channel c's shared mapping, index -> byte
    script,    \* script[p]: the calls process p makes, in order
    ip,        \* ip[p]: index in script[p] of the call p is in (or makes next)
    pc,        \* pc[p]: p's position inside that call
    data,      \* data[p]: send's argument `data` / the bytes recv has loaded into `t`
    off,       \* off[p]: the offset of the next payload byte p copies
    called,    \* called[c]: the values passed to send on c, in call order
    sentRet,   \* sentRet[c]: the number of send calls on c that have returned
    rcvd,      \* rcvd[c]: the values recv on c has returned, in order
    stores,    \* stores[c]: the number of flag stores made by send (.s) and by recv (.r)
    n,         \* the argument of spawn_processes
    procs,     \* procs[i]: process i of the fork tree
    args,      \* env::args(): the argument vector of the program
    created,   \* created[c]: the size and owner passed to TransferBuffer::new for channel c
    wbuf,      \* wbuf[p]: the payload writes of p not yet visible to the other process
    now,       \* Instant::now(): the reading of the monotonic clock
    signals    \* signals[q]: the signals sent to process q with Process::kill, in order

vars == <<mmap, script, ip, pc, data, off, called, sentRet, rcvd, stores, n, procs,
          args, created, wbuf, now, signals>>

chanVars == <<mmap, script, ip, pc, data, off, called, sentRet, rcvd, stores, created, wbuf>>
spawnVars == <<n, procs, args>>
osVars == <<now, signals>>

----------------------------------------------------------------------------
(* Bounds of the model *)

\* size_of::<T>() of the payload type of the channel under test
PayloadSize == 2
\* payload bytes range over 0..MaxByte
MaxByte == 1
\* the most calls one process makes on the channel
MaxMsgs == 2
\* the largest process count passed to spawn_processes
MaxN == 33
\* up to this process count every interleaving of the processes of the fork
\* tree is explored; above it, one schedule
MaxInterleavedN == 5

----------------------------------------------------------------------------
(* TransferBuffer *)

SENDER == 0
RECEIVER == 1

Byte == 0 .. MaxByte

\* MmapMut::len of a mapping held as a function 0..len-1 -> byte
mmap_len(m) == Cardinality(DOMAIN m)

\* TransferBuffer::size: "the size of the data buffer", mmap.len() - 1
size(m) == mmap_len(m) - 1

\* an owner_mut that points at the last byte below size() - 1, where the
\* slot ends
owner_mut_in_slot(m) == size(m) - 2

\* TransferBuffer::owner / owner_mut: the index of the flag byte
owner(m) == size(m)
owner_mut(m) == size(m)

\* a buffer() that is one byte shorter than the payload
buffer_one_short(m) == { i \in DOMAIN m : i < size(m) - 2 }

\* TransferBuffer::buffer / buffer_mut: the indices of the slice mmap[..size() - 1]
buffer(m) == { i \in DOMAIN m : i < size(m) - 1 }

\* a buffer_mut that returns the whole mapping, guard and flag included
buffer_mut_whole(m) == DOMAIN m

buffer_mut(m) == { i \in DOMAIN m : i < size(m) - 1 }

\* a write_owner that stores one byte too low, at the last index of the slice
\* buffer_mut() would have with a flag at size() - 1
write_owner_below(m, owner_id) == [m EXCEPT ![owner_mut(m) - 1] = owner_id]

\* TransferBuffer::write_owner: volatile store of owner_id at owner_mut()
write_owner(m, owner_id) == [m EXCEPT ![owner_mut(m)] = owner_id]

\* TransferBuffer::current_owner: volatile load at owner()
current_owner(m) == m[owner(m)]

\* the arguments of a call TransferBuffer::new(size, owner)
NewArgs(sz, own) == [size |-> sz, owner |-> own]

\* a TransferBuffer::new that leaves the flag as the fresh mapping has it
TransferBuffer_new_without_owner(sz, own) == [i \in 0 .. (sz + 2) - 1 |-> 0]

\* TransferBuffer::new: an anonymous (zero-filled) mapping of size + 2 bytes,
\* then write_owner(owner)
TransferBuffer_new(sz, own) == write_owner([i \in 0 .. (sz + 2) - 1 |-> 0], own)

\* a Receiver::new that creates the buffer owned by the receiver
Receiver_new_for_receiver(sizeofT) == TransferBuffer_new(sizeofT, RECEIVER)

\* Receiver::<T>::new: TransferBuffer::new(size_of::<T>(), SENDER)
Receiver_new(sizeofT) == TransferBuffer_new(sizeofT, SENDER)

\* Sender::write_unaligned, one byte of it: byte k of src goes to
\* buffer_mut().as_mut_ptr() + k
write_unaligned_byte(m, k, b) == [m EXCEPT ![k] = b]

\* a read_unaligned that loads from one byte past buffer().as_ptr()
read_unaligned_byte_shifted(m, k) == m[k + 1]

\* Receiver::read_unaligned, one byte of it: the byte at buffer().as_ptr() + k
read_unaligned_byte(m, k) == m[k]

----------------------------------------------------------------------------
(* The two processes of a fork and the calls they make *)

Procs == {"parent", "child"}

Chans == DOMAIN mmap

\* size_of::<T>() for the T of channel c: the mapping is created with it
SizeOf(c) == mmap_len(mmap[c]) - 2

\* the values of a T of sz bytes, as their byte images (byte k is v[k + 1])
RECURSIVE ValuesOf(_)
ValuesOf(sz) ==
    IF sz = 0 THEN {<<>>}
    ELSE { Append(v, b) : v \in ValuesOf(sz - 1), b \in Byte }

CurOp(p) == script[p][ip[p]]
Running(p) == ip[p] <= Len(script[p])
Finished(p) == ip[p] > Len(script[p])

SendOp(c) == [op |-> "send", ch |-> c]
RecvOp(c) == [op |-> "recv", ch |-> c]

InOp(p, o) == Running(p) /\ CurOp(p).op = o

\* the caller passes `data` to Sender::send
send_call(p) ==
    /\ InOp(p, "send") /\ pc[p] = "call"
    /\ \E v \in ValuesOf(SizeOf(CurOp(p).ch)) :
          /\ data' = [data EXCEPT ![p] = v]
          /\ called' = [called EXCEPT ![CurOp(p).ch] = Append(@, v)]
    /\ pc' = [pc EXCEPT ![p] = "wait"]
    /\ off' = [off EXCEPT ![p] = 0]
    /\ UNCHANGED <<mmap, script, ip, sentRet, rcvd, stores, created, wbuf, spawnVars, osVars>>

\* the caller calls Receiver::recv
recv_call(p) ==
    /\ InOp(p, "recv") /\ pc[p] = "call"
    /\ data' = [data EXCEPT ![p] = <<>>]
    /\ pc' = [pc EXCEPT ![p] = "wait"]
    /\ off' = [off EXCEPT ![p] = 0]
    /\ UNCHANGED <<mmap, script, ip, called, sentRet, rcvd, stores, created, wbuf, spawnVars, osVars>>

\* send and recv waiting for each other's side
Awaited_swapped(p) == IF CurOp(p).op \in {"send", "write"} THEN RECEIVER ELSE SENDER

\* the side a call waits for: send and write wait for SENDER, recv and read
\* for RECEIVER
Awaited(p) == IF CurOp(p).op \in {"send", "write"} THEN SENDER ELSE RECEIVER

\* a wait_for_owner that goes on to the payload after its first read, whatever
\* the flag is
wait_for_owner_first_proceeds(p) ==
    /\ Running(p) /\ pc[p] = "wait"
    /\ pc' = [pc EXCEPT ![p] = "copy"]
    /\ UNCHANGED <<mmap, script, ip, data, off, called, sentRet, rcvd, stores, created, wbuf, spawnVars, osVars>>

\* wait_for_owner, line 75: one volatile read whose value is dropped
wait_for_owner_first(p) ==
    /\ Running(p) /\ pc[p] = "wait"
    /\ pc' = [pc EXCEPT ![p] = "spin"]
    /\ UNCHANGED <<mmap, script, ip, data, off, called, sentRet, rcvd, stores, created, wbuf, spawnVars, osVars>>

\* where a call goes once the flag is its own: write and read take their slice
\* of the buffer; send and recv go to the payload copy, or straight to the
\* flag store for a zero-sized T
AfterWait(p) ==
    IF CurOp(p).op \in {"write", "read"} THEN "slice"
    ELSE IF SizeOf(CurOp(p).ch) = 0 THEN "store" ELSE "copy"

\* a wait_for_owner that reads the flag once more and goes on whatever it is
wait_for_owner_no_spin(p) ==
    /\ Running(p) /\ pc[p] = "spin"
    /\ pc' = [pc EXCEPT ![p] = AfterWait(p)]
    /\ UNCHANGED <<mmap, script, ip, data, off, called, sentRet, rcvd, stores, created, wbuf, spawnVars, osVars>>

\* wait_for_owner, line 76: one iteration of the spin
wait_for_owner_spin(p) ==
    /\ Running(p) /\ pc[p] = "spin"
    /\ pc' = [pc EXCEPT ![p] =
                 IF current_owner(mmap[CurOp(p).ch]) # Awaited(p)
                 THEN "spin" ELSE AfterWait(p)]
    /\ UNCHANGED <<mmap, script, ip, data, off, called, sentRet, rcvd, stores, created, wbuf, spawnVars, osVars>>

\* where the copy goes after the byte at offset k: on to the next byte, or to
\* the flag store after the last of the size_of::<T>() bytes
AfterByte(p, k) == IF k + 1 < SizeOf(CurOp(p).ch) THEN "copy" ELSE "store"

\* a send that stores RECEIVER into the flag before the payload is complete:
\* every byte written also hands the slot over
send_write_hands_over(p) ==
    /\ InOp(p, "send") /\ pc[p] = "copy"
    /\ mmap' = [mmap EXCEPT ![CurOp(p).ch] =
                   write_owner(write_unaligned_byte(@, off[p], data[p][off[p] + 1]),
                               RECEIVER)]
    /\ off' = [off EXCEPT ![p] = @ + 1]
    /\ pc' = [pc EXCEPT ![p] = AfterByte(p, off[p])]
    /\ UNCHANGED <<script, ip, data, called, sentRet, rcvd, stores, created, wbuf, spawnVars, osVars>>

\* Sender::send, line 128: write_unaligned(data), one byte per step
send_write(p) ==
    /\ InOp(p, "send") /\ pc[p] = "copy"
    /\ mmap' = [mmap EXCEPT ![CurOp(p).ch] =
                   write_unaligned_byte(@, off[p], data[p][off[p] + 1])]
    /\ off' = [off EXCEPT ![p] = @ + 1]
    /\ pc' = [pc EXCEPT ![p] = AfterByte(p, off[p])]
    /\ UNCHANGED <<script, ip, data, called, sentRet, rcvd, stores, created, wbuf, spawnVars, osVars>>

\* a recv that takes the payload out of the slot: each byte it reads it
\* overwrites with zero
recv_read_clears(p) ==
    /\ InOp(p, "recv") /\ pc[p] = "copy"
    /\ data' = [data EXCEPT ![p] =
                   Append(@, read_unaligned_byte(mmap[CurOp(p).ch], off[p]))]
    /\ mmap' = [mmap EXCEPT ![CurOp(p).ch] = [@ EXCEPT ![off[p]] = 0]]
    /\ off' = [off EXCEPT ![p] = @ + 1]
    /\ pc' = [pc EXCEPT ![p] = AfterByte(p, off[p])]
    /\ UNCHANGED <<script, ip, called, sentRet, rcvd, stores, created, wbuf, spawnVars, osVars>>

\* Receiver::recv, line 181: let t = read_unaligned(), one byte per step
recv_read(p) ==
    /\ InOp(p, "recv") /\ pc[p] = "copy"
    /\ data' = [data EXCEPT ![p] =
                   Append(@, read_unaligned_byte(mmap[CurOp(p).ch], off[p]))]
    /\ off' = [off EXCEPT ![p] = @ + 1]
    /\ pc' = [pc EXCEPT ![p] = AfterByte(p, off[p])]
    /\ UNCHANGED <<mmap, script, ip, called, sentRet, rcvd, stores, created, wbuf, spawnVars, osVars>>

\* a send that takes the slot back at its end: it stores SENDER
send_store_keeps_slot(p) ==
    /\ InOp(p, "send") /\ pc[p] = "store"
    /\ mmap' = [mmap EXCEPT ![CurOp(p).ch] = write_owner(@, SENDER)]
    /\ stores' = [stores EXCEPT ![CurOp(p).ch].s = @ + 1]
    /\ pc' = [pc EXCEPT ![p] = "ret"]
    /\ UNCHANGED <<script, ip, data, off, called, sentRet, rcvd, created, wbuf, spawnVars, osVars>>

\* Sender::send, line 129: write_owner(RECEIVER)
send_store(p) ==
    /\ InOp(p, "send") /\ pc[p] = "store"
    /\ mmap' = [mmap EXCEPT ![CurOp(p).ch] = write_owner(@, RECEIVER)]
    /\ stores' = [stores EXCEPT ![CurOp(p).ch].s = @ + 1]
    /\ pc' = [pc EXCEPT ![p] = "ret"]
    /\ UNCHANGED <<script, ip, data, off, called, sentRet, rcvd, created, wbuf, spawnVars, osVars>>

\* a recv that does not hand the slot back: it stores RECEIVER again
recv_store_keeps_slot(p) ==
    /\ InOp(p, "recv") /\ pc[p] = "store"
    /\ mmap' = [mmap EXCEPT ![CurOp(p).ch] = write_owner(@, RECEIVER)]
    /\ stores' = [stores EXCEPT ![CurOp(p).ch].r = @ + 1]
    /\ pc' = [pc EXCEPT ![p] = "ret"]
    /\ UNCHANGED <<script, ip, data, off, called, sentRet, rcvd, created, wbuf, spawnVars, osVars>>

\* Receiver::recv, line 182: write_owner(SENDER)
recv_store(p) ==
    /\ InOp(p, "recv") /\ pc[p] = "store"
    /\ mmap' = [mmap EXCEPT ![CurOp(p).ch] = write_owner(@, SENDER)]
    /\ stores' = [stores EXCEPT ![CurOp(p).ch].r = @ + 1]
    /\ pc' = [pc EXCEPT ![p] = "ret"]
    /\ UNCHANGED <<script, ip, data, off, called, sentRet, rcvd, created, wbuf, spawnVars, osVars>>

\* Sender::send, line 130: the call returns to its caller
send_return(p) ==
    /\ InOp(p, "send") /\ pc[p] = "ret"
    /\ sentRet' = [sentRet EXCEPT ![CurOp(p).ch] = @ + 1]
    /\ ip' = [ip EXCEPT ![p] = @ + 1]
    /\ pc' = [pc EXCEPT ![p] = "call"]
    /\ data' = [data EXCEPT ![p] = <<>>]
    /\ UNCHANGED <<mmap, script, off, called, rcvd, stores, created, wbuf, spawnVars, osVars>>

\* Receiver::recv, lines 183-184: the call returns t to its caller
recv_return(p) ==
    /\ InOp(p, "recv") /\ pc[p] = "ret"
    /\ rcvd' = [rcvd EXCEPT ![CurOp(p).ch] = Append(@, data[p])]
    /\ ip' = [ip EXCEPT ![p] = @ + 1]
    /\ pc' = [pc EXCEPT ![p] = "call"]
    /\ data' = [data EXCEPT ![p] = <<>>]
    /\ UNCHANGED <<mmap, script, off, called, sentRet, stores, created, wbuf, spawnVars, osVars>>

\* one step of process p
step(p) ==
    \/ send_call(p)
    \/ recv_call(p)
    \/ wait_for_owner_first(p)
    \/ wait_for_owner_spin(p)
    \/ send_write(p)
    \/ recv_read(p)
    \/ send_store(p)
    \/ recv_store(p)
    \/ send_return(p)
    \/ recv_return(p)

NextChan == \E p \in Procs : step(p)

----------------------------------------------------------------------------
(* One channel: a sender process and a receiver process *)

Repeat(o, k) == [i \in 1 .. k |-> o]

\* the state after Receiver::new(), new_sender() and fork(): the parent makes
\* ns sends, the child nr recvs
InitOneChannel(ns, nr) ==
    /\ mmap = [c \in {1} |-> Receiver_new(PayloadSize)]
    /\ script = [p \in Procs |->
                    IF p = "parent" THEN Repeat(SendOp(1), ns)
                    ELSE Repeat(RecvOp(1), nr)]
    /\ ip = [p \in Procs |-> 1]
    /\ pc = [p \in Procs |-> "call"]
    /\ data = [p \in Procs |-> <<>>]
    /\ off = [p \in Procs |-> 0]
    /\ called = [c \in {1} |-> <<>>]
    /\ sentRet = [c \in {1} |-> 0]
    /\ rcvd = [c \in {1} |-> <<>>]
    /\ stores = [c \in {1} |-> [s |-> 0, r |-> 0]]
    /\ created = [c \in {1} |-> NewArgs(PayloadSize, SENDER)]
    /\ n = 0
    /\ procs = <<>>
    /\ args = <<>>
    /\ wbuf = [p \in Procs |-> {}]
    /\ now = 0
    /\ signals = [q \in Procs |-> <<>>]

Init == \E ns \in 0 .. MaxMsgs, nr \in 0 .. MaxMsgs : InitOneChannel(ns, nr)

Next == NextChan

Spec == Init /\ [][Next]_vars

----------------------------------------------------------------------------
(* Properties of one channel *)

\* the ownership flag of channel c, as current_owner reads it
Flag(c) == current_owner(mmap[c])

\* the payload slot of channel c as a value of T: the size_of::<T>() bytes
\* from buffer().as_ptr()
Slot(c) == [i \in 1 .. SizeOf(c) |-> mmap[c][i - 1]]

IsPrefix(s, t) == Len(s) <= Len(t) /\ \A i \in 1 .. Len(s) : s[i] = t[i]

AllFinished == \A p \in Procs : Finished(p)

\* C1: the recv that pairs with send(v) returns v, byte for byte: whenever a
\* recv returns as the i-th recv of its channel, the value it returns is the
\* value passed to the i-th send on that channel.
C1_SendRecvIdentity ==
    [][\A p \in Procs :
          recv_return(p) =>
              LET c == CurOp(p).ch
                  i == Len(rcvd'[c])
              IN  /\ i = Len(rcvd[c]) + 1
                  /\ i <= Len(called[c])
                  /\ rcvd'[c][i] = called[c][i]]_vars

\* a recv has returned a value with a non-zero byte (so not the zero-filled
\* mapping), equal to the value of the first send
C1_Witness ==
    /\ Len(rcvd[1]) >= 1
    /\ rcvd[1][1] = called[1][1]
    /\ \E i \in 1 .. PayloadSize : rcvd[1][1][i] # 0

\* C2: the sequence of values returned by recv is the sequence passed to send,
\* in order: at every moment it is a prefix of it (nothing reordered or
\* duplicated), and once the sender made k sends and the receiver k recvs it
\* is the whole of it (nothing lost).
C2_Fifo ==
    \A c \in Chans :
        /\ IsPrefix(rcvd[c], called[c])
        /\ (AllFinished /\ Len(script["parent"]) = Len(script["child"]))
              => rcvd[c] = called[c]

\* two different values have been sent and received in order
C2_Witness ==
    /\ AllFinished
    /\ Len(rcvd[1]) = 2
    /\ rcvd[1] = called[1]
    /\ rcvd[1][1] # rcvd[1][2]

\* C4: no torn payload. While the receiver loads the payload and until it
\* hands the slot back, the slot holds the bytes of one send, whole, and
\* what the receiver has loaded so far are bytes of that send; every value
\* recv returned is the value of one send.
C4_NoTornRead ==
    /\ \A p \in Procs :
          (InOp(p, "recv") /\ pc[p] \in {"copy", "store"}) =>
              LET c == CurOp(p).ch
              IN  \E j \in 1 .. Len(called[c]) :
                      /\ Slot(c) = called[c][j]
                      /\ IsPrefix(data[p], called[c][j])
    /\ \A c \in Chans : \A i \in 1 .. Len(rcvd[c]) :
          \E j \in 1 .. Len(called[c]) : rcvd[c][i] = called[c][j]

\* the receiver is half way through loading the second value, whose bytes
\* all differ from the first value's
C4_Witness ==
    /\ InOp("child", "recv") /\ pc["child"] = "copy" /\ off["child"] = 1
    /\ Len(called[1]) = 2
    /\ \A i \in 1 .. PayloadSize : called[1][1][i] # called[1][2][i]

\* C8 as stated: right after send returns the flag is RECEIVER, right after
\* recv returns it is SENDER.
C8_FlagAfterReturn ==
    [][\A p \in Procs : \A c \in Chans :
          /\ (send_return(p) /\ CurOp(p).ch = c) => Flag(c)' = RECEIVER
          /\ (recv_return(p) /\ CurOp(p).ch = c) => Flag(c)' = SENDER]_vars

\* C8 amended: right after send's flag store the flag is RECEIVER and right
\* after recv's flag store it is SENDER; when the call returns the flag still
\* has that value unless the peer has made its next handoff meanwhile (the
\* matching recv has stored SENDER, or the next send has stored RECEIVER).
C8_FlagAfterStore ==
    [][\A p \in Procs : \A c \in Chans :
          /\ (send_store(p) /\ CurOp(p).ch = c) => Flag(c)' = RECEIVER
          /\ (recv_store(p) /\ CurOp(p).ch = c) => Flag(c)' = SENDER
          /\ (send_return(p) /\ CurOp(p).ch = c) =>
                \/ Flag(c)' = RECEIVER
                \/ stores'[c].r = stores'[c].s
          /\ (recv_return(p) /\ CurOp(p).ch = c) =>
                \/ Flag(c)' = SENDER
                \/ stores'[c].s = stores'[c].r + 1]_vars

\* a send has returned and the receiver had already handed the slot back
C8_Witness ==
    /\ sentRet[1] = 1
    /\ ip["parent"] = 2 /\ pc["parent"] = "call"
    /\ stores[1].r = 1
    /\ Flag(1) = SENDER

\* C9 as stated: returned sends minus returned recvs is 0 or 1.
C9_ReturnedDifference ==
    \A c \in Chans : sentRet[c] - Len(rcvd[c]) \in {0, 1}

\* C9 amended: counted at the handoff (the call's flag store), sends minus
\* recvs is 0 or 1; a recv never returns before the matching send has stored
\* the flag; a further send never returns while the previous value has not
\* been taken by a recv's handoff. Counted at the return of the calls the
\* difference is between -1 and 2.
C9_OneInFlight ==
    \A c \in Chans :
        /\ stores[c].s - stores[c].r \in {0, 1}
        /\ Len(rcvd[c]) <= stores[c].r
        /\ stores[c].r <= stores[c].s
        /\ sentRet[c] <= stores[c].s
        /\ sentRet[c] <= stores[c].r + 1
        /\ sentRet[c] - Len(rcvd[c]) \in -1 .. 2

\* the sender is spinning in a second send whose value no recv will take
C9_Witness ==
    /\ Finished("child")
    /\ Len(rcvd[1]) = 0
    /\ sentRet[1] = 1
    /\ ip["parent"] = 2 /\ pc["parent"] = "spin"
    /\ stores[1].s - stores[1].r = 1

----------------------------------------------------------------------------
(* One send and one recv running concurrently, both processes scheduled *)

InitPair == InitOneChannel(1, 1)

\* each of the two processes runs on its own and keeps taking steps
Fairness == \A p \in Procs : WF_vars(step(p))

SpecPair == InitPair /\ [][Next]_vars /\ Fairness

\* C3: a send(v) and a concurrent recv() on the same channel both return, and
\* the recv returns v: no interleaving leaves either of them spinning forever.
C3_PairTerminates ==
    <>(/\ AllFinished
       /\ sentRet[1] = 1
       /\ Len(rcvd[1]) = 1
       /\ rcvd[1] = called[1])

\* both calls have returned and the recv returned the sent value, which has a
\* non-zero byte
C3_Witness ==
    /\ AllFinished
    /\ sentRet[1] = 1
    /\ rcvd[1] = called[1]
    /\ Len(rcvd[1]) = 1
    /\ \E i \in 1 .. PayloadSize : rcvd[1][1][i] # 0

----------------------------------------------------------------------------
(* channel::tests::simple_transfer: three channels shared by parent and child *)

\* size_of of the payload types of receiver1, receiver2, receiver3, scaled
\* down: the second is the multi-byte one
TransferSize(c) == IF c = 2 THEN PayloadSize ELSE 1

\* the calls of the Parent arm and of the Child arm of the fork
ParentScript == <<SendOp(1), SendOp(1), SendOp(2), RecvOp(3)>>
ChildScript == <<RecvOp(1), RecvOp(1), RecvOp(2), SendOp(3)>>

InitTransfer ==
    /\ mmap = [c \in 1 .. 3 |-> Receiver_new(TransferSize(c))]
    /\ script = [p \in Procs |-> IF p = "parent" THEN ParentScript ELSE ChildScript]
    /\ ip = [p \in Procs |-> 1]
    /\ pc = [p \in Procs |-> "call"]
    /\ data = [p \in Procs |-> <<>>]
    /\ off = [p \in Procs |-> 0]
    /\ called = [c \in 1 .. 3 |-> <<>>]
    /\ sentRet = [c \in 1 .. 3 |-> 0]
    /\ rcvd = [c \in 1 .. 3 |-> <<>>]
    /\ stores = [c \in 1 .. 3 |-> [s |-> 0, r |-> 0]]
    /\ created = [c \in 1 .. 3 |-> NewArgs(TransferSize(c), SENDER)]
    /\ n = 0
    /\ procs = <<>>
    /\ args = <<>>
    /\ wbuf = [p \in Procs |-> {}]
    /\ now = 0
    /\ signals = [q \in Procs |-> <<>>]

SpecTransfer == InitTransfer /\ [][Next]_vars /\ Fairness

\* C10: in simple_transfer every call of both processes completes, the child
\* receives a, b on channel 1 and c on channel 2, and the parent receives d on
\* channel 3.
C10_TransferCompletes ==
    <>(/\ AllFinished
       /\ Len(called[1]) = 2 /\ rcvd[1] = called[1]
       /\ Len(called[2]) = 1 /\ rcvd[2] = called[2]
       /\ Len(called[3]) = 1 /\ rcvd[3] = called[3])

\* the test has run to its end with a # b and non-zero c and d
C10_Witness ==
    /\ AllFinished
    /\ rcvd[1] = called[1] /\ Len(rcvd[1]) = 2 /\ rcvd[1][1] # rcvd[1][2]
    /\ rcvd[2] = called[2] /\ Len(rcvd[2]) = 1 /\ rcvd[2][1][1] # 0
    /\ rcvd[3] = called[3] /\ Len(rcvd[3]) = 1 /\ rcvd[3][1][1] # 0

----------------------------------------------------------------------------
(* The launcher: spawn_processes(n) and the tree of processes it forks *)

\* A process of the tree is named by its path from the process that called
\* spawn_processes: <<>> is that process, Append(i, k) the child made by the
\* k-th fork() of process i. procs[i] holds the locals of process i: rank,
\* procs_to_create, child_procs; its position pc; forks, the number of fork()
\* calls it has made; info, the MpiInformation it returned (<<>> until then).

\* MpiInformation::new(n_processes, rank)
MpiInformation_new(n_processes, rank) == [n_processes |-> n_processes, rank |-> rank]

Root == <<>>

\* the process that calls spawn_processes(nn): lines 413-414
RootProcess(nn) ==
    [rank |-> 0, procs_to_create |-> nn, child_procs |-> 0, pc |-> "loop",
     forks |-> 0, info |-> <<>>]

Tree == DOMAIN procs

Live(i) == procs[i].pc # "returned"

\* the order in which the scheduler prefers processes: a process before its
\* children, an earlier child (and its descendants) before a later one
RECURSIVE Before(_, _)
Before(i, j) ==
    IF i = <<>> THEN j # <<>>
    ELSE IF j = <<>> THEN FALSE
    ELSE IF Head(i) # Head(j) THEN Head(i) < Head(j)
    ELSE Before(Tail(i), Tail(j))

\* For n <= MaxInterleavedN any unfinished process may take the next step. The
\* processes share no state, so the order of their steps changes nothing any
\* of them computes: for larger n the first unfinished process in the
\* scheduler's order runs. A process that has panicked has ended.
Scheduled(i) ==
    /\ i \in Tree
    /\ Live(i)
    /\ \/ n <= MaxInterleavedN
       \/ \A j \in Tree : (Live(j) /\ procs[j].pc # "panicked") => ~Before(j, i)

\* lines 415-417: the loop test holds; procs_to_create -= 1;
\* child_procs = procs_to_create / 2
spawn_iteration(i) ==
    /\ Scheduled(i) /\ procs[i].pc = "loop"
    /\ procs[i].procs_to_create # 0
    /\ procs' = [procs EXCEPT ![i] =
                    [@ EXCEPT !.procs_to_create = @ - 1,
                              !.child_procs = (procs[i].procs_to_create - 1) \div 2,
                              !.pc = "fork"]]
    /\ UNCHANGED <<n, args, chanVars, osVars>>

\* the tree t with process j added, holding r
WithProcess(t, j, r) == [k \in DOMAIN t \cup {j} |-> IF k = j THEN r ELSE t[k]]

\* line 418: fork() succeeds; the child is a copy of the caller, and each of
\* the two goes on in its own arm of the match
spawn_fork(i) ==
    /\ Scheduled(i) /\ procs[i].pc = "fork"
    /\ procs' = WithProcess(
                    [procs EXCEPT ![i] = [@ EXCEPT !.pc = "parent", !.forks = @ + 1]],
                    Append(i, procs[i].forks + 1),
                    [procs[i] EXCEPT !.pc = "child", !.forks = 0])
    /\ UNCHANGED <<n, args, chanVars, osVars>>

\* a child arm that keeps the whole remaining count instead of child_procs
spawn_child_arm_keeps_count(i) ==
    /\ Scheduled(i) /\ procs[i].pc = "child"
    /\ procs' = [procs EXCEPT ![i] =
                    [@ EXCEPT !.rank = @ + procs[i].child_procs + 1,
                              !.pc = "loop"]]
    /\ UNCHANGED <<n, args, chanVars, osVars>>

\* a child arm that adds child_procs to the rank, without the one more
spawn_child_arm_without_one(i) ==
    /\ Scheduled(i) /\ procs[i].pc = "child"
    /\ procs' = [procs EXCEPT ![i] =
                    [@ EXCEPT !.procs_to_create = procs[i].child_procs,
                              !.rank = @ + procs[i].child_procs,
                              !.pc = "loop"]]
    /\ UNCHANGED <<n, args, chanVars, osVars>>

\* lines 419-422: Ok(ForkResult::Child)
spawn_child_arm(i) ==
    /\ Scheduled(i) /\ procs[i].pc = "child"
    /\ procs' = [procs EXCEPT ![i] =
                    [@ EXCEPT !.procs_to_create = procs[i].child_procs,
                              !.rank = @ + procs[i].child_procs + 1,
                              !.pc = "loop"]]
    /\ UNCHANGED <<n, args, chanVars, osVars>>

\* a parent arm that leaves procs_to_create as it is
spawn_parent_arm_keeps_count(i) ==
    /\ Scheduled(i) /\ procs[i].pc = "parent"
    /\ procs' = [procs EXCEPT ![i] = [@ EXCEPT !.pc = "loop"]]
    /\ UNCHANGED <<n, args, chanVars, osVars>>

\* line 423: Ok(ForkResult::Parent { .. })
spawn_parent_arm(i) ==
    /\ Scheduled(i) /\ procs[i].pc = "parent"
    /\ procs' = [procs EXCEPT ![i] =
                    [@ EXCEPT !.procs_to_create = @ - procs[i].child_procs,
                              !.pc = "loop"]]
    /\ UNCHANGED <<n, args, chanVars, osVars>>

\* lines 415 and 427: the loop test fails; return MpiInformation::new(n, rank)
spawn_return(i) ==
    /\ Scheduled(i) /\ procs[i].pc = "loop"
    /\ procs[i].procs_to_create = 0
    /\ procs' = [procs EXCEPT ![i] =
                    [@ EXCEPT !.info = MpiInformation_new(n, procs[i].rank),
                              !.pc = "returned"]]
    /\ UNCHANGED <<n, args, chanVars, osVars>>

SpawnIteration == \E i \in Tree : spawn_iteration(i)
SpawnFork == \E i \in Tree : spawn_fork(i)
SpawnChildArm == \E i \in Tree : spawn_child_arm(i)
SpawnParentArm == \E i \in Tree : spawn_parent_arm(i)
SpawnReturn == \E i \in Tree : spawn_return(i)

NextSpawn ==
    \/ SpawnIteration
    \/ SpawnFork
    \/ SpawnChildArm
    \/ SpawnParentArm
    \/ SpawnReturn

\* the state in which one process calls spawn_processes(n); no channel exists
InitSpawn ==
    /\ n \in 0 .. MaxN
    /\ procs = [i \in {Root} |-> RootProcess(n)]
    /\ mmap = <<>>
    /\ script = [p \in Procs |-> <<>>]
    /\ ip = [p \in Procs |-> 1]
    /\ pc = [p \in Procs |-> "call"]
    /\ data = [p \in Procs |-> <<>>]
    /\ off = [p \in Procs |-> 0]
    /\ called = <<>>
    /\ sentRet = <<>>
    /\ rcvd = <<>>
    /\ stores = <<>>
    /\ created = <<>>
    /\ wbuf = [p \in Procs |-> {}]
    /\ now = 0
    /\ signals = [q \in Procs |-> <<>>]
    /\ args = <<>>

SpecSpawn == InitSpawn /\ [][NextSpawn]_vars

\* every process of the tree has returned from spawn_processes
AllReturned == \A i \in Tree : ~Live(i)

\* the processes that have returned, and the ranks they returned
Returned == { i \in Tree : ~Live(i) }
ReturnedRanks == { procs[i].info.rank : i \in Returned }

\* the number of fork() calls made in the whole tree
TotalForks == Cardinality(Tree) - 1

\* C5: for N in {1, 2, 3, 4, 5, 8, 16, 17, 33}, exactly N processes return from
\* spawn_processes(N) and their ranks are pairwise distinct and form {0..N-1}.
C5_RankBijection ==
    (AllReturned /\ n \in {1, 2, 3, 4, 5, 8, 16, 17, 33}) =>
        /\ Cardinality(Returned) = n
        /\ ReturnedRanks = 0 .. n - 1
        /\ \A i, j \in Returned :
              procs[i].info.rank = procs[j].info.rank => i = j

\* C6: spawn_processes(1) yields a single process with rank 0 and forks
\* nothing.
C6_SingleProcess ==
    n = 1 =>
        /\ TotalForks = 0
        /\ \A i \in Tree : procs[i].forks = 0
        /\ AllReturned => (Cardinality(Returned) = 1 /\ ReturnedRanks = {0})

\* C7: every MpiInformation returned by spawn_processes(N), N >= 1, has
\* n_processes = N and 0 <= rank < N.
C7_InfoInRange ==
    n >= 1 =>
        \A i \in Returned :
            /\ procs[i].info.n_processes = n
            /\ 0 <= procs[i].info.rank
            /\ procs[i].info.rank < n

----------------------------------------------------------------------------
(* The entry point: init() reads the argument vector and calls              *)
(* spawn_processes                                                          *)

\* An argument is a String, held as the sequence of its characters. Option
\* values: None is <<>>, Some(x) is <<x>>.
None == <<>>
Some(x) == <<x>>

\* the most arguments in the argument vector, the program name included
MaxArgs == 3

\* the string "-n"
DashN == <<"-", "n">>

\* the arguments the vector is drawn from: the flag, a program name, decimal
\* numbers, and values that are no number, negative, signed, or empty
ArgSet ==
    { DashN, <<"p">>, <<"0">>, <<"2">>, <<"1", "2">>, <<"x">>, <<"2", "x">>,
      <<"-", "1">>, <<"+", "3">>, <<>> }

DigitChars == <<"0", "1", "2", "3", "4", "5", "6", "7", "8", "9">>

IsDigit(ch) == \E d \in 1 .. 10 : DigitChars[d] = ch

\* char::to_digit(10) of a digit
to_digit(ch) == (CHOOSE d \in 1 .. 10 : DigitChars[d] = ch) - 1

\* the digit loop of str::parse::<usize>: any other character than a digit is
\* an error. (No argument of ArgSet is long enough to overflow a usize.)
RECURSIVE parse_digits(_, _)
parse_digits(src, result) ==
    IF src = <<>> THEN Some(result)
    ELSE IF ~IsDigit(Head(src)) THEN None
    ELSE parse_digits(Tail(src), result * 10 + to_digit(Head(src)))

\* str::parse::<usize>: the empty string is an error; one leading "+" is
\* skipped, a leading "-" is not; a sign alone is an error
parse_usize(src) ==
    IF src = <<>> THEN None
    ELSE LET digits == IF Head(src) = "+" THEN Tail(src) ELSE src
         IN  IF digits = <<>> THEN None ELSE parse_digits(digits, 0)

\* a position() that counts the arguments from one
position_one_based(a) ==
    IF \E i \in 1 .. Len(a) : a[i] = DashN
    THEN Some(CHOOSE i \in 1 .. Len(a) :
                  a[i] = DashN /\ \A j \in 1 .. i - 1 : a[j] # DashN)
    ELSE None

\* line 435: args.iter().position(|s| s == "-n"), the index counted from zero
\* of the first argument equal to "-n"
position(a) ==
    IF \E i \in 1 .. Len(a) : a[i] = DashN
    THEN Some((CHOOSE i \in 1 .. Len(a) :
                   a[i] = DashN /\ \A j \in 1 .. i - 1 : a[j] # DashN) - 1)
    ELSE None

DEFAULT_N == 8

\* an init that falls back to DEFAULT_N when the value of -n is missing or
\* does not parse
init_n_defaults_on_error(a) ==
    LET pos == position(a)
    IN  IF pos = None THEN Some(DEFAULT_N)
        ELSE IF pos[1] + 1 >= Len(a) THEN Some(DEFAULT_N)
        ELSE IF parse_usize(a[(pos[1] + 1) + 1]) = None THEN Some(DEFAULT_N)
        ELSE parse_usize(a[(pos[1] + 1) + 1])

\* lines 433-441: the n that init passes to spawn_processes, or None when
\* init panics: args[index + 1] is out of bounds, or expect() gets the Err of
\* parse. (The vector a is indexed from one, so args[index + 1] is
\* a[(index + 1) + 1].)
init_n(a) ==
    LET pos == position(a)
    IN  IF pos = None THEN Some(DEFAULT_N)
        ELSE IF pos[1] + 1 >= Len(a) THEN None
        ELSE parse_usize(a[(pos[1] + 1) + 1])

\* the process that has entered init()
InitProcess == [RootProcess(0) EXCEPT !.pc = "init"]

\* lines 432-442: the arguments give an n, and init calls spawn_processes(n)
init_launch(i) ==
    /\ i \in Tree /\ procs[i].pc = "init"
    /\ init_n(args) # None
    /\ n' = init_n(args)[1]
    /\ procs' = [procs EXCEPT ![i] = RootProcess(init_n(args)[1])]
    /\ UNCHANGED <<args, chanVars, osVars>>

\* lines 437-439: init panics; the process ends without calling
\* spawn_processes
init_panic(i) ==
    /\ i \in Tree /\ procs[i].pc = "init"
    /\ init_n(args) = None
    /\ procs' = [procs EXCEPT ![i] = [@ EXCEPT !.pc = "panicked"]]
    /\ UNCHANGED <<n, args, chanVars, osVars>>

InitLaunch == \E i \in Tree : init_launch(i)
InitPanic == \E i \in Tree : init_panic(i)

NextInit ==
    \/ InitLaunch
    \/ InitPanic
    \/ SpawnIteration
    \/ SpawnFork
    \/ SpawnChildArm
    \/ SpawnParentArm
    \/ SpawnReturn

\* the state in which one process, started with some argument vector, calls
\* init(); no channel exists
InitInit ==
    /\ \E len \in 1 .. MaxArgs : args \in [1 .. len -> ArgSet]
    /\ n = 0
    /\ procs = [i \in {Root} |-> InitProcess]
    /\ mmap = <<>>
    /\ script = [p \in Procs |-> <<>>]
    /\ ip = [p \in Procs |-> 1]
    /\ pc = [p \in Procs |-> "call"]
    /\ data = [p \in Procs |-> <<>>]
    /\ off = [p \in Procs |-> 0]
    /\ called = <<>>
    /\ sentRet = <<>>
    /\ rcvd = <<>>
    /\ stores = <<>>
    /\ created = <<>>
    /\ wbuf = [p \in Procs |-> {}]
    /\ now = 0
    /\ signals = [q \in Procs |-> <<>>]

SpecInit == InitInit /\ [][NextInit]_vars

\* What the argument vector says, read off the vector itself
HasDashN(a) == \E i \in 1 .. Len(a) : a[i] = DashN

\* the place of the first "-n" in a vector that has one
FirstDashN(a) == CHOOSE i \in 1 .. Len(a) : a[i] = DashN /\ \A j \in 1 .. i - 1 : a[j] # DashN

\* s is a decimal integer: one or more digits
IsDecimal(s) == Len(s) >= 1 /\ \A k \in 1 .. Len(s) : IsDigit(s[k])

\* s is an integer with or without a sign
IsInteger(s) ==
    \/ IsDecimal(s)
    \/ Len(s) >= 2 /\ s[1] \in {"+", "-"} /\ IsDecimal(Tail(s))

\* the number a decimal integer denotes
RECURSIVE DecimalValue(_)
DecimalValue(s) ==
    IF s = <<>> THEN 0
    ELSE 10 * DecimalValue(SubSeq(s, 1, Len(s) - 1)) + to_digit(s[Len(s)])

\* the value that follows the first "-n"
ValueOfDashN(a) == a[FirstDashN(a) + 1]

\* init has called spawn_processes(k), and every MpiInformation returned so
\* far has n_processes = k
LaunchedWith(k) ==
    /\ procs[Root].pc \notin {"init", "panicked"}
    /\ n = k
    /\ \A i \in Returned : procs[i].info.n_processes = k

C12_BadValueIsFatal ==
    (/\ HasDashN(args)
     /\ \/ FirstDashN(args) = Len(args)
        \/ ~IsInteger(ValueOfDashN(args)))
    => /\ Tree = {Root}
       /\ procs[Root].pc \in {"init", "panicked"}
       /\ procs[Root].forks = 0
       /\ procs[Root].info = <<>>

\* init() has panicked on a vector that ends with "-n"
C12_Witness ==
    /\ HasDashN(args)
    /\ FirstDashN(args) = Len(args)
    /\ procs[Root].pc = "panicked"

\* C13: "-n 0" is a fatal launch error: nothing is forked and no
\* MpiInformation is returned.
C13_ZeroIsFatal ==
    (/\ HasDashN(args)
     /\ FirstDashN(args) < Len(args)
     /\ IsDecimal(ValueOfDashN(args))
     /\ DecimalValue(ValueOfDashN(args)) < 1)
    => /\ Tree = {Root}
       /\ procs[Root].pc \in {"init", "panicked"}
       /\ procs[Root].info = <<>>

----------------------------------------------------------------------------
(* A TransferBuffer created for either owner *)

\* the state after TransferBuffer::new(size, own) and fork(): the parent makes
\* one send, the child one recv
InitOwner(own) ==
    /\ mmap = [c \in {1} |-> TransferBuffer_new(PayloadSize, own)]
    /\ created = [c \in {1} |-> NewArgs(PayloadSize, own)]
    /\ script = [p \in Procs |->
                    IF p = "parent" THEN <<SendOp(1)>> ELSE <<RecvOp(1)>>]
    /\ ip = [p \in Procs |-> 1]
    /\ pc = [p \in Procs |-> "call"]
    /\ data = [p \in Procs |-> <<>>]
    /\ off = [p \in Procs |-> 0]
    /\ called = [c \in {1} |-> <<>>]
    /\ sentRet = [c \in {1} |-> 0]
    /\ rcvd = [c \in {1} |-> <<>>]
    /\ stores = [c \in {1} |-> [s |-> 0, r |-> 0]]
    /\ n = 0
    /\ procs = <<>>
    /\ args = <<>>
    /\ wbuf = [p \in Procs |-> {}]
    /\ now = 0
    /\ signals = [q \in Procs |-> <<>>]

InitAnyOwner == \E own \in {SENDER, RECEIVER} : InitOwner(own)

SpecAnyOwner == InitAnyOwner /\ [][Next]_vars

\* the value of T a fresh anonymous mapping holds: every byte zero
ZeroValue(c) == [i \in 1 .. SizeOf(c) |-> 0]

\* C14 as stated: whichever owner the buffer was created with, once the one
\* send(v) and the one recv() have both completed, the recv returned v.
C14_AnyOwnerIdentity ==
    AllFinished => rcvd[1] = called[1]

\* C14 as the code has it: created with owner SENDER, once the send(v) and the
\* recv() have both completed the recv returned v byte for byte; created with
\* owner RECEIVER, the recv runs before the send and returned the zero bytes
\* of the fresh mapping, whatever v is.
C14_CreatedOwnerDecides ==
    AllFinished =>
        /\ created[1].owner = SENDER => rcvd[1] = called[1]
        /\ created[1].owner = RECEIVER => rcvd[1] = <<ZeroValue(1)>>

\* created for RECEIVER: send(v) with a non-zero v and the recv have both
\* completed, and the recv returned zeros
C14_Witness ==
    /\ AllFinished
    /\ created[1].owner = RECEIVER
    /\ \E i \in 1 .. PayloadSize : called[1][1][i] # 0
    /\ rcvd[1] = <<ZeroValue(1)>>

----------------------------------------------------------------------------
(* The byte-stream interface: impl Write for Sender, impl Read for Receiver *)

\* the most byte-stream or typed calls one process makes in a mixed run
MaxStreamOps == 1

\* the bytes of a byte-stream write: one value more than the typed payloads
\* use, so that a payload byte differs from both owner ids
StreamByte == 0 .. MaxByte + 1

\* the data of a write of len bytes: consecutive byte values counted up from
\* the least or from the greatest byte, so that every position of the data is
\* told from its neighbours
StreamData(len) ==
    { [i \in 1 .. len |-> (b + (i - 1)) % (MaxByte + 2)] : b \in {0, MaxByte + 1} }

\* Sender::write(data) with data.len() = len; Receiver::read(buf) with
\* buf.len() = len
WriteOp(c, len) == [op |-> "write", ch |-> c, len |-> len]
ReadOp(c, len) == [op |-> "read", ch |-> c, len |-> len]

\* the number of bytes of the slice buffer() / buffer_mut() returns
slice_len(idx) == Cardinality(idx)

\* the caller passes `data` to Sender::write
write_call(p) ==
    /\ InOp(p, "write") /\ pc[p] = "call"
    /\ \E d \in StreamData(CurOp(p).len) :
          /\ data' = [data EXCEPT ![p] = d]
          /\ called' = [called EXCEPT ![CurOp(p).ch] = Append(@, d)]
    /\ off' = [off EXCEPT ![p] = 0]
    /\ pc' = [pc EXCEPT ![p] = "wait"]
    /\ UNCHANGED <<mmap, script, ip, sentRet, rcvd, stores, created, wbuf, spawnVars, osVars>>

\* a write that cuts data down to the slot instead of panicking
write_slice_truncates(p) ==
    /\ InOp(p, "write") /\ pc[p] = "slice"
    /\ pc' = [pc EXCEPT ![p] = IF Len(data[p]) = 0 THEN "store" ELSE "copy"]
    /\ UNCHANGED <<mmap, script, ip, data, off, called, sentRet, rcvd, stores, created, wbuf, spawnVars, osVars>>

\* Sender::write, line 137: &mut buf.buffer_mut()[..data.len()] panics when
\* data is longer than the slice; otherwise the copy of data.len() bytes begins
write_slice(p) ==
    /\ InOp(p, "write") /\ pc[p] = "slice"
    /\ pc' = [pc EXCEPT ![p] =
                 IF Len(data[p]) > slice_len(buffer_mut(mmap[CurOp(p).ch]))
                 THEN "panicked"
                 ELSE IF Len(data[p]) = 0 THEN "store" ELSE "copy"]
    /\ UNCHANGED <<mmap, script, ip, data, off, called, sentRet, rcvd, stores, created, wbuf, spawnVars, osVars>>

\* a write that copies data one byte further into the mapping than the front
\* of the slot
write_copy_shifted(p) ==
    /\ InOp(p, "write") /\ pc[p] = "copy"
    /\ mmap' = [mmap EXCEPT ![CurOp(p).ch] = [@ EXCEPT ![off[p] + 1] = data[p][off[p] + 1]]]
    /\ off' = [off EXCEPT ![p] = @ + 1]
    /\ pc' = [pc EXCEPT ![p] = IF off[p] + 1 < Len(data[p]) THEN "copy" ELSE "store"]
    /\ UNCHANGED <<script, ip, data, called, sentRet, rcvd, stores, created, wbuf, spawnVars, osVars>>

\* Sender::write, line 137: <&mut [u8] as Write>::write(data), one byte per step
write_copy(p) ==
    /\ InOp(p, "write") /\ pc[p] = "copy"
    /\ mmap' = [mmap EXCEPT ![CurOp(p).ch] = [@ EXCEPT ![off[p]] = data[p][off[p] + 1]]]
    /\ off' = [off EXCEPT ![p] = @ + 1]
    /\ pc' = [pc EXCEPT ![p] = IF off[p] + 1 < Len(data[p]) THEN "copy" ELSE "store"]
    /\ UNCHANGED <<script, ip, data, called, sentRet, rcvd, stores, created, wbuf, spawnVars, osVars>>

\* Sender::write, line 138: write_owner(RECEIVER)
write_store(p) ==
    /\ InOp(p, "write") /\ pc[p] = "store"
    /\ mmap' = [mmap EXCEPT ![CurOp(p).ch] = write_owner(@, RECEIVER)]
    /\ stores' = [stores EXCEPT ![CurOp(p).ch].s = @ + 1]
    /\ pc' = [pc EXCEPT ![p] = "ret"]
    /\ UNCHANGED <<script, ip, data, off, called, sentRet, rcvd, created, wbuf, spawnVars, osVars>>

\* Sender::write, line 139: Ok(w), the call returns to its caller
write_return(p) ==
    /\ InOp(p, "write") /\ pc[p] = "ret"
    /\ sentRet' = [sentRet EXCEPT ![CurOp(p).ch] = @ + 1]
    /\ ip' = [ip EXCEPT ![p] = @ + 1]
    /\ pc' = [pc EXCEPT ![p] = "call"]
    /\ data' = [data EXCEPT ![p] = <<>>]
    /\ UNCHANGED <<mmap, script, off, called, rcvd, stores, created, wbuf, spawnVars, osVars>>

\* the caller passes `buf` to Receiver::read
read_call(p) ==
    /\ InOp(p, "read") /\ pc[p] = "call"
    /\ data' = [data EXCEPT ![p] = <<>>]
    /\ off' = [off EXCEPT ![p] = 0]
    /\ pc' = [pc EXCEPT ![p] = "wait"]
    /\ UNCHANGED <<mmap, script, ip, called, sentRet, rcvd, stores, created, wbuf, spawnVars, osVars>>

\* <&[u8] as Read>::read: amt = min(buf.len(), self.len())
read_amt(p) ==
    IF CurOp(p).len < slice_len(buffer(mmap[CurOp(p).ch]))
    THEN CurOp(p).len
    ELSE slice_len(buffer(mmap[CurOp(p).ch]))

\* Receiver::read, line 190: &self.buffer.buffer()[..], the whole slot
read_slice(p) ==
    /\ InOp(p, "read") /\ pc[p] = "slice"
    /\ pc' = [pc EXCEPT ![p] = IF read_amt(p) = 0 THEN "store" ELSE "copy"]
    /\ UNCHANGED <<mmap, script, ip, data, off, called, sentRet, rcvd, stores, created, wbuf, spawnVars, osVars>>

\* Receiver::read, line 190: <&[u8] as Read>::read(buf), one byte per step;
\* data[p] is buf[..off]
read_copy(p) ==
    /\ InOp(p, "read") /\ pc[p] = "copy"
    /\ data' = [data EXCEPT ![p] = Append(@, mmap[CurOp(p).ch][off[p]])]
    /\ off' = [off EXCEPT ![p] = @ + 1]
    /\ pc' = [pc EXCEPT ![p] = IF off[p] + 1 < read_amt(p) THEN "copy" ELSE "store"]
    /\ UNCHANGED <<mmap, script, ip, called, sentRet, rcvd, stores, created, wbuf, spawnVars, osVars>>

\* Receiver::read, line 191: write_owner(SENDER)
read_store(p) ==
    /\ InOp(p, "read") /\ pc[p] = "store"
    /\ mmap' = [mmap EXCEPT ![CurOp(p).ch] = write_owner(@, SENDER)]
    /\ stores' = [stores EXCEPT ![CurOp(p).ch].r = @ + 1]
    /\ pc' = [pc EXCEPT ![p] = "ret"]
    /\ UNCHANGED <<script, ip, data, off, called, sentRet, rcvd, created, wbuf, spawnVars, osVars>>

\* Receiver::read, line 192: Ok(r); the caller has the r bytes buf[..r]
read_return(p) ==
    /\ InOp(p, "read") /\ pc[p] = "ret"
    /\ rcvd' = [rcvd EXCEPT ![CurOp(p).ch] = Append(@, data[p])]
    /\ ip' = [ip EXCEPT ![p] = @ + 1]
    /\ pc' = [pc EXCEPT ![p] = "call"]
    /\ data' = [data EXCEPT ![p] = <<>>]
    /\ UNCHANGED <<mmap, script, off, called, sentRet, stores, created, wbuf, spawnVars, osVars>>

\* one step of process p inside a byte-stream call
stream_step(p) ==
    \/ write_call(p)
    \/ write_slice(p)
    \/ write_copy(p)
    \/ write_store(p)
    \/ write_return(p)
    \/ read_call(p)
    \/ read_slice(p)
    \/ read_copy(p)
    \/ read_store(p)
    \/ read_return(p)

NextStream == \E p \in Procs : step(p) \/ stream_step(p)

\* the calls a sender may make on channel c: send, or a write of up to
\* mmap.len() bytes; those a receiver may make: recv, or a read into up to
\* S + 1 bytes
SenderOps(c, S) == {SendOp(c)} \cup { WriteOp(c, len) : len \in 0 .. S + 2 }
ReceiverOps(c, S) == {RecvOp(c)} \cup { ReadOp(c, len) : len \in 0 .. S + 1 }

\* the sequences of up to k calls from ops
Scripts(ops, k) == UNION { [1 .. len -> ops] : len \in 0 .. k }

\* the state after Receiver::new(), new_sender() and fork(): the parent holds
\* the Sender, the child the Receiver, and each makes up to MaxStreamOps calls
InitStream ==
    /\ mmap = [c \in {1} |-> Receiver_new(PayloadSize)]
    /\ created = [c \in {1} |-> NewArgs(PayloadSize, SENDER)]
    /\ \E ss \in Scripts(SenderOps(1, PayloadSize), MaxStreamOps),
          rs \in Scripts(ReceiverOps(1, PayloadSize), MaxStreamOps) :
          script = [p \in Procs |-> IF p = "parent" THEN ss ELSE rs]
    /\ ip = [p \in Procs |-> 1]
    /\ pc = [p \in Procs |-> "call"]
    /\ data = [p \in Procs |-> <<>>]
    /\ off = [p \in Procs |-> 0]
    /\ called = [c \in {1} |-> <<>>]
    /\ sentRet = [c \in {1} |-> 0]
    /\ rcvd = [c \in {1} |-> <<>>]
    /\ stores = [c \in {1} |-> [s |-> 0, r |-> 0]]
    /\ n = 0
    /\ procs = <<>>
    /\ args = <<>>
    /\ wbuf = [p \in Procs |-> {}]
    /\ now = 0
    /\ signals = [q \in Procs |-> <<>>]

SpecStream == InitStream /\ [][NextStream]_vars

\* C15: in every reachable state of a channel created by Receiver::new() and
\* used through send, recv, write and read, the ownership flag byte is 0
\* (SENDER) or 1 (RECEIVER).
C15_FlagIsOwner ==
    \A c \in Chans : Flag(c) \in {0, 1}

\* a write of S bytes, the largest that fits, has stored bytes other than 0
\* and 1 in the slot and handed it over; the flag is RECEIVER
C15_Witness ==
    /\ InOp("parent", "write") /\ pc["parent"] = "ret"
    /\ Len(data["parent"]) = PayloadSize
    /\ \E i \in 1 .. PayloadSize : data["parent"][i] \notin {0, 1}
    /\ Slot(1) = data["parent"]
    /\ Flag(1) = RECEIVER

----------------------------------------------------------------------------
(* The ownership state machine of one channel *)

\* a step changes the flag of channel c
FlagChanges(c) == Flag(c)' # Flag(c)

\* C16: a channel made by Receiver::new() starts with the flag SENDER. The flag
\* changes only in the last statement of a send, from SENDER to RECEIVER, and
\* in the last statement of a recv, from RECEIVER to SENDER. Hence sends and
\* recvs, each counted when it completes its handoff, strictly alternate and
\* begin with a send: a send completes only when as many recvs as sends have
\* completed, a recv only when one more send than recvs has, and the flag is
\* SENDER exactly when the two counts are equal.
C16_OwnershipAlternates ==
    /\ \A c \in Chans : Flag(c) = SENDER
    /\ [][\A c \in Chans :
             /\ FlagChanges(c) =>
                   \E p \in Procs :
                       \/ /\ send_store(p) /\ CurOp(p).ch = c
                          /\ Flag(c) = SENDER /\ Flag(c)' = RECEIVER
                       \/ /\ recv_store(p) /\ CurOp(p).ch = c
                          /\ Flag(c) = RECEIVER /\ Flag(c)' = SENDER
             /\ \A p \in Procs :
                   /\ (send_store(p) /\ CurOp(p).ch = c) =>
                         (stores[c].s = stores[c].r /\ FlagChanges(c))
                   /\ (recv_store(p) /\ CurOp(p).ch = c) =>
                         (stores[c].s = stores[c].r + 1 /\ FlagChanges(c))]_vars
    /\ [](\A c \in Chans :
             /\ stores[c].s - stores[c].r \in {0, 1}
             /\ Flag(c) = SENDER <=> stores[c].s = stores[c].r)

\* a send, a recv and a second send have completed their handoffs in turn
C16_Witness ==
    /\ stores[1] = [s |-> 2, r |-> 1]
    /\ Flag(1) = RECEIVER
    /\ Len(rcvd[1]) = 1

----------------------------------------------------------------------------
(* The layout of a TransferBuffer, in the two revisions of TransferBuffer::new *)

\* TransferBuffer::new of src/mpi1/src/lib.rs: the mapping has size + 1 bytes
\* (that of src/mpi2/src/lib.rs, TransferBuffer_new above, has size + 2). The
\* accessors size, owner, buffer, write_owner and current_owner are the same
\* in both.
TransferBuffer_new_mpi1(sz, own) == write_owner([i \in 0 .. (sz + 1) - 1 |-> 0], own)

Revisions == {"mpi1", "mpi2"}

TransferBuffer_new_in(rev, sz, own) ==
    IF rev = "mpi1" THEN TransferBuffer_new_mpi1(sz, own) ELSE TransferBuffer_new(sz, own)

\* one process holds a TransferBuffer and calls its methods one after the
\* other; it has not panicked
Holder == "parent"
HolderRuns == pc[Holder] # "panicked"

\* TransferBuffer::write_owner(owner_id)
TransferBuffer_write_owner ==
    /\ HolderRuns
    /\ \E owner_id \in {SENDER, RECEIVER} :
          mmap' = [mmap EXCEPT ![1] = write_owner(@, owner_id)]
    /\ UNCHANGED <<script, ip, pc, data, off, called, sentRet, rcvd, stores, created, wbuf, spawnVars, osVars>>

\* impl Write for TransferBuffer: (&mut self.buffer_mut()[..data.len()]).write(data)
\* panics when data is longer than the slice, and else copies data to the
\* front of the slice
TransferBuffer_write ==
    /\ HolderRuns
    /\ \E len \in 0 .. mmap_len(mmap[1]) : \E d \in StreamData(len) :
          IF len > slice_len(buffer_mut(mmap[1]))
          THEN /\ pc' = [pc EXCEPT ![Holder] = "panicked"]
               /\ UNCHANGED mmap
          ELSE /\ mmap' = [mmap EXCEPT ![1] =
                              [i \in DOMAIN @ |-> IF i < len THEN d[i + 1] ELSE @[i]]]
               /\ UNCHANGED pc
    /\ UNCHANGED <<script, ip, data, off, called, sentRet, rcvd, stores, created, wbuf, spawnVars, osVars>>

\* impl Read for TransferBuffer: (&self.buffer()[..]).read(buf) in mpi2 copies
\* min(buf.len(), slice length) bytes; (&self.buffer()[..buf.len()]).read(buf)
\* in mpi1 panics when buf is longer than the slice. data[Holder] is what the
\* call put into buf.
TransferBuffer_read ==
    /\ HolderRuns
    /\ \E len \in 0 .. mmap_len(mmap[1]) :
          LET have == slice_len(buffer(mmap[1]))
              amt == IF len < have THEN len ELSE have
          IN  IF created[1].rev = "mpi1" /\ len > have
              THEN /\ pc' = [pc EXCEPT ![Holder] = "panicked"]
                   /\ UNCHANGED data
              ELSE /\ data' = [data EXCEPT ![Holder] = [i \in 1 .. amt |-> mmap[1][i - 1]]]
                   /\ UNCHANGED pc
    /\ UNCHANGED <<mmap, script, ip, off, called, sentRet, rcvd, stores, created, wbuf, spawnVars, osVars>>

NextLayout ==
    \/ TransferBuffer_write_owner
    \/ TransferBuffer_write
    \/ TransferBuffer_read

\* the state after TransferBuffer::new(S, own) of either revision, S from 1 to
\* PayloadSize
InitLayout ==
    /\ \E rev \in Revisions, S \in 1 .. PayloadSize, own \in {SENDER, RECEIVER} :
          /\ mmap = [c \in {1} |-> TransferBuffer_new_in(rev, S, own)]
          /\ created = [c \in {1} |-> [size |-> S, owner |-> own, rev |-> rev]]
    /\ script = [p \in Procs |-> <<>>]
    /\ ip = [p \in Procs |-> 1]
    /\ pc = [p \in Procs |-> "call"]
    /\ data = [p \in Procs |-> <<>>]
    /\ off = [p \in Procs |-> 0]
    /\ called = [c \in {1} |-> <<>>]
    /\ sentRet = [c \in {1} |-> 0]
    /\ rcvd = [c \in {1} |-> <<>>]
    /\ stores = [c \in {1} |-> [s |-> 0, r |-> 0]]
    /\ n = 0
    /\ procs = <<>>
    /\ args = <<>>
    /\ wbuf = [p \in Procs |-> {}]
    /\ now = 0
    /\ signals = [q \in Procs |-> <<>>]

SpecLayout == InitLayout /\ [][NextLayout]_vars

\* C17: a TransferBuffer created with payload size S has a mapping of S + 1
\* bytes, buffer() and buffer_mut() are exactly the bytes [0..S), and the flag
\* that current_owner reads and write_owner writes is byte [S].
C17_Layout ==
    \A c \in Chans :
        LET S == created[c].size
        IN  /\ mmap_len(mmap[c]) = S + 1
            /\ buffer(mmap[c]) = 0 .. S - 1
            /\ buffer_mut(mmap[c]) = 0 .. S - 1
            /\ owner(mmap[c]) = S
            /\ owner_mut(mmap[c]) = S

----------------------------------------------------------------------------
(* The channel on a memory where plain writes become visible out of order *)

\* send and recv have no fence (lines 126-130, 179-184): the payload is
\* written by a plain ptr.write_unaligned, the flag by write_volatile, and
\* nothing orders the one before the other for the other process. A payload
\* write of p is held in wbuf[p] until it becomes visible in the shared
\* mapping; the pending writes become visible one by one in any order, before
\* or after p's flag store. A later write of p to the same byte replaces the
\* pending one.

\* the write of byte b to index k of channel c
PlainWrite(c, k, b) == [ch |-> c, at |-> k, byte |-> b]

\* Sender::send, line 128: write_unaligned(data), one plain byte write per step
send_write_plain(p) ==
    /\ InOp(p, "send") /\ pc[p] = "copy"
    /\ wbuf' = [wbuf EXCEPT ![p] =
                   { w \in @ : ~(w.ch = CurOp(p).ch /\ w.at = off[p]) }
                   \cup {PlainWrite(CurOp(p).ch, off[p], data[p][off[p] + 1])}]
    /\ off' = [off EXCEPT ![p] = @ + 1]
    /\ pc' = [pc EXCEPT ![p] = AfterByte(p, off[p])]
    /\ UNCHANGED <<mmap, script, ip, data, called, sentRet, rcvd, stores, created, spawnVars, osVars>>

\* one pending write of p becomes visible to the other process
write_visible(p) ==
    /\ \E w \in wbuf[p] :
          /\ mmap' = [mmap EXCEPT ![w.ch] = write_unaligned_byte(@, w.at, w.byte)]
          /\ wbuf' = [wbuf EXCEPT ![p] = @ \ {w}]
    /\ UNCHANGED <<script, ip, pc, data, off, called, sentRet, rcvd, stores, created, spawnVars, osVars>>

\* one step of process p on this memory
weak_step(p) ==
    \/ send_call(p)
    \/ recv_call(p)
    \/ wait_for_owner_first(p)
    \/ wait_for_owner_spin(p)
    \/ send_write_plain(p)
    \/ write_visible(p)
    \/ recv_read(p)
    \/ send_store(p)
    \/ recv_store(p)
    \/ send_return(p)
    \/ recv_return(p)

NextWeak == \E p \in Procs : weak_step(p)

SpecWeak == Init /\ [][NextWeak]_vars

\* C18: on a memory where plain writes may become visible out of order, the
\* receiver still sees every payload byte of the matching send: the values
\* recv has returned are the values passed to send, in order.
C18_ReceiverSeesPayload ==
    \A c \in Chans : IsPrefix(rcvd[c], called[c])

----------------------------------------------------------------------------
(* Boundary payloads *)

\* the payload sizes at the boundary: one byte, and the size of the channel
\* under test
BoundarySizes == {1, PayloadSize}

\* the state after Receiver::<T>::new() for a T of S bytes: the parent makes
\* one typed send or one write of exactly S bytes, the child one typed recv or
\* one read into a buf of S bytes
InitBoundary ==
    /\ \E S \in BoundarySizes :
          /\ mmap = [c \in {1} |-> Receiver_new(S)]
          /\ created = [c \in {1} |-> NewArgs(S, SENDER)]
          /\ \E so \in {SendOp(1), WriteOp(1, S)}, ro \in {RecvOp(1), ReadOp(1, S)} :
                script = [p \in Procs |-> IF p = "parent" THEN <<so>> ELSE <<ro>>]
    /\ ip = [p \in Procs |-> 1]
    /\ pc = [p \in Procs |-> "call"]
    /\ data = [p \in Procs |-> <<>>]
    /\ off = [p \in Procs |-> 0]
    /\ called = [c \in {1} |-> <<>>]
    /\ sentRet = [c \in {1} |-> 0]
    /\ rcvd = [c \in {1} |-> <<>>]
    /\ stores = [c \in {1} |-> [s |-> 0, r |-> 0]]
    /\ n = 0
    /\ procs = <<>>
    /\ args = <<>>
    /\ wbuf = [p \in Procs |-> {}]
    /\ now = 0
    /\ signals = [q \in Procs |-> <<>>]

\* each of the two processes runs on its own and keeps taking steps
FairnessStream == \A p \in Procs : WF_vars(step(p) \/ stream_step(p))

SpecBoundary == InitBoundary /\ [][NextStream]_vars /\ FairnessStream

\* C19: for S = 1 and for a payload of exactly S bytes, passed by a typed send
\* or by a write of S bytes and taken by a typed recv or by a read into S
\* bytes, no call panics, both calls return, and the receiver has all S bytes
\* as they were passed.
C19_BoundaryRoundTrip ==
    /\ [](/\ \A p \in Procs : pc[p] # "panicked"
          /\ IsPrefix(rcvd[1], called[1])
          /\ \A i \in 1 .. Len(rcvd[1]) : Len(rcvd[1][i]) = created[1].size)
    /\ <>(AllFinished /\ Len(rcvd[1]) = 1 /\ rcvd[1] = called[1])

\* a write of exactly S bytes, S the full slot, with a byte other than 0, has
\* been read back whole by a read into S bytes
C19_Witness ==
    /\ created[1].size = PayloadSize
    /\ script["parent"] = <<WriteOp(1, PayloadSize)>>
    /\ script["child"] = <<ReadOp(1, PayloadSize)>>
    /\ AllFinished
    /\ rcvd[1] = called[1]
    /\ Len(rcvd[1][1]) = PayloadSize
    /\ \E i \in 1 .. PayloadSize : rcvd[1][1][i] # 0

----------------------------------------------------------------------------
(* Exclusive access to the payload slot *)

\* p is in the payload-access phase of its call: the flag has been seen to be
\* its own, and its flag store has not been made
InPayloadPhase(p) == Running(p) /\ pc[p] \in {"copy", "store"}

\* the side the flag of channel c favours
Favoured(p, c) == Running(p) /\ CurOp(p).ch = c /\ Flag(c) = Awaited(p)

\* C20: with one sender process and one receiver process, the sender is in
\* its payload-access phase only while the flag is SENDER and the receiver
\* only while the flag is RECEIVER; the two are never in that phase at the same
\* time; and every step of a process inside a call whose side the flag does
\* not favour leaves the shared mapping as it is (it only reads the flag).
C20_ExclusiveAccess ==
    /\ [](/\ \A p \in Procs :
                InPayloadPhase(p) => Flag(CurOp(p).ch) = Awaited(p)
          /\ ~(InPayloadPhase("parent") /\ InPayloadPhase("child")))
    /\ [][\A p \in Procs : \A c \in Chans :
             (step(p) /\ Running(p) /\ CurOp(p).ch = c /\ ~Favoured(p, c))
                 => mmap' = mmap]_vars

\* the sender is in the middle of its payload write, the flag is SENDER, and
\* the receiver is inside recv, spinning on the flag
C20_Witness ==
    /\ InOp("parent", "send") /\ pc["parent"] = "copy" /\ off["parent"] = 1
    /\ InOp("child", "recv") /\ pc["child"] = "spin"
    /\ Flag(1) = SENDER

----------------------------------------------------------------------------
(* The shape of the fork tree *)

\* process j is process i or one of its descendants
RECURSIVE Descends(_, _)
Descends(j, i) ==
    IF i = <<>> THEN TRUE
    ELSE IF j = <<>> THEN FALSE
    ELSE Head(j) = Head(i) /\ Descends(Tail(j), Tail(i))

\* the processes made by a fork(): all but the one that called spawn_processes
Forked == Tree \ {Root}

\* the process whose fork() made j, and the number of that fork() among its
\* parent's
ParentOf(j) == SubSeq(j, 1, Len(j) - 1)
ForkNo(j) == j[Len(j)]

\* the child made by fork() number f of process i and all its descendants
UpperPart(j) == { k \in Tree : Descends(k, j) }

\* the parent of j and the processes the parent forks after j
LowerPart(j) ==
    {ParentOf(j)} \cup { k \in Forked : ParentOf(k) = ParentOf(j) /\ ForkNo(k) > ForkNo(j) }

\* C21: at every fork the child takes the upper part of the range: once all
\* processes have returned, every rank returned by the child or one of its
\* descendants is strictly greater than every rank returned by the parent or
\* by a process the parent forked afterwards.
C21_ChildTakesUpperPart ==
    AllReturned =>
        \A j \in Forked :
            \A k \in UpperPart(j), l \in LowerPart(j) :
                procs[k].info.rank > procs[l].info.rank

\* floor(log2(k)) for k >= 1
RECURSIVE Log2Floor(_)
Log2Floor(k) == IF k <= 1 THEN 0 ELSE 1 + Log2Floor(k \div 2)

\* the depth of process i in the fork tree: the number of forks from the root
\* down to it
Depth(i) == Len(i)

\* C22: for N in 1..33 no process of the tree of spawn_processes(N) is more
\* than floor(log2(N)) + 1 forks below the root.
C22_LogDepth ==
    n \in 1 .. 33 => \A i \in Tree : Depth(i) <= Log2Floor(n) + 1

\* spawn_processes(33) has run to its end and a process is 5 forks below the
\* root
C22_Witness ==
    /\ n = 33
    /\ AllReturned
    /\ \E i \in Tree : Depth(i) = 5

\* every process of the tree is run by the operating system: as long as some
\* process can take a step, a step is taken
FairnessSpawn == WF_vars(NextSpawn)

SpecSpawnFair == InitSpawn /\ [][NextSpawn]_vars /\ FairnessSpawn

\* C23: for N in 0..33, with every fork succeeding, the loop of
\* spawn_processes ends in every process of the tree: from some moment on
\* every process made has returned an MpiInformation; and the number of
\* processes made is finite, never above N + 1.
C23_SpawnTerminates ==
    n \in 0 .. 33 =>
        /\ <>[](/\ AllReturned
                /\ \A i \in Tree : procs[i].info # <<>>)
        /\ [](Cardinality(Tree) <= n + 1)

\* spawn_processes(33) has run to its end in 34 processes
C23_Witness ==
    /\ n = 33
    /\ AllReturned
    /\ Cardinality(Tree) = 34
    /\ \A i \in Tree : procs[i].info.n_processes = 33

----------------------------------------------------------------------------
(* spawn_processes with a fork() that fails *)

\* the most fork() calls that fail in one run
MaxForkFailures == 1

\* the processes that have panicked
Panicked == { i \in Tree : procs[i].pc = "panicked" }

\* a fork() error that is dropped: the process goes on in the parent arm
spawn_fork_fails_goes_on(i) ==
    /\ Scheduled(i) /\ procs[i].pc = "fork"
    /\ Cardinality(Panicked) < MaxForkFailures
    /\ procs' = [procs EXCEPT ![i] = [@ EXCEPT !.pc = "parent"]]
    /\ UNCHANGED <<n, args, chanVars, osVars>>

\* lines 418 and 424: fork() returns Err(_), no child is made, and the caller
\* panics with "Fork failed - couldn't spawn process."
spawn_fork_fails(i) ==
    /\ Scheduled(i) /\ procs[i].pc = "fork"
    /\ Cardinality(Panicked) < MaxForkFailures
    /\ procs' = [procs EXCEPT ![i] = [@ EXCEPT !.pc = "panicked"]]
    /\ UNCHANGED <<n, args, chanVars, osVars>>

SpawnForkFails == \E i \in Tree : spawn_fork_fails(i)

NextSpawnFail ==
    \/ SpawnIteration
    \/ SpawnFork
    \/ SpawnForkFails
    \/ SpawnChildArm
    \/ SpawnParentArm
    \/ SpawnReturn

SpecSpawnFail == InitSpawn /\ [][NextSpawnFail]_vars

\* C24: a fork() that fails inside spawn_processes makes no child and ends the
\* calling process in a panic; a process that has panicked takes no further
\* step and has returned no MpiInformation.
C24_ForkFailureIsFatal ==
    /\ [][\A i \in Tree :
             /\ spawn_fork_fails(i) =>
                   /\ procs'[i].pc = "panicked"
                   /\ procs'[i].info = <<>>
                   /\ DOMAIN procs' = Tree
             /\ procs[i].pc = "panicked" => procs'[i] = procs[i]]_vars
    /\ [](\A i \in Panicked : procs[i].info = <<>> /\ i \notin Returned)

\* in spawn_processes(3) the fork of a forked process has failed; that process
\* has nothing returned, every other process has returned
C24_Witness ==
    /\ n = 3
    /\ \E i \in Forked :
          /\ Panicked = {i}
          /\ procs[i].info = <<>>
          /\ \A j \in Tree \ {i} : procs[j].pc = "returned"

----------------------------------------------------------------------------
(* The handoff of the byte-stream calls *)

\* Sender::write, line 137: w, and Receiver::read, line 190: r, the number of
\* bytes the slice copy has copied; the call returns Ok(w) / Ok(r)
write_w(p) == off[p]
read_r(p) == off[p]

\* the lesser of two numbers
Min(a, b) == IF a < b THEN a ELSE b

----------------------------------------------------------------------------
(* A write longer than the slot *)

\* p is inside Sender::write with data longer than the payload slot
Oversize(p) ==
    /\ InOp(p, "write")
    /\ CurOp(p).len > created[CurOp(p).ch].size

\* C26: a Sender::write whose data is longer than the payload slot panics at
\* the slice, after the flag was read as SENDER; none of its steps writes to
\* the shared region, it stores nothing into the flag and does not return,
\* and the flag is SENDER while it is panicked.
C26_OversizeWritePanics ==
    /\ [][\A p \in Procs :
             (Oversize(p) /\ (step(p) \/ stream_step(p))) =>
                 /\ mmap' = mmap
                 /\ ~write_copy(p) /\ ~write_store(p) /\ ~write_return(p)
                 /\ write_slice(p) =>
                       /\ Flag(CurOp(p).ch) = SENDER
                       /\ pc'[p] = "panicked"]_vars
    /\ [](\A p \in Procs :
             (Oversize(p) /\ pc[p] \in {"slice", "panicked"}) =>
                 Flag(CurOp(p).ch) = SENDER)
    /\ [](\A p \in Procs :
             (InOp(p, "write") /\ pc[p] = "panicked") => Oversize(p))

\* a write of one byte more than the slot holds has panicked; the slot is
\* as Receiver::new() left it and the flag is SENDER
C26_Witness ==
    /\ Oversize("parent") /\ pc["parent"] = "panicked"
    /\ Len(data["parent"]) = PayloadSize + 1
    /\ \E k \in 1 .. PayloadSize : data["parent"][k] # 0
    /\ ip["parent"] = 1
    /\ mmap[1] = Receiver_new(PayloadSize)
    /\ Flag(1) = SENDER

----------------------------------------------------------------------------
(* What the flag reads and recv write *)

\* C27: a read of the flag, the dropped first one or one of the spin, writes
\* nothing to the shared region, so the next read of the flag returns the
\* same value unless a write came between; and no step of recv writes a
\* payload byte: the one step of recv that changes the region is the flag
\* store, which stores SENDER.
C27_ReadsWriteNothing ==
    [][\A p \in Procs : \A c \in Chans :
          /\ ((wait_for_owner_first(p) \/ wait_for_owner_spin(p)) /\ CurOp(p).ch = c) =>
                /\ mmap' = mmap
                /\ current_owner(mmap'[c]) = current_owner(mmap[c])
          /\ (InOp(p, "recv") /\ step(p) /\ CurOp(p).ch = c) =>
                /\ \A i \in buffer(mmap[c]) : mmap'[c][i] = mmap[c][i]
                /\ mmap' # mmap =>
                      /\ recv_store(p)
                      /\ mmap' = [mmap EXCEPT ![c] = write_owner(@, SENDER)]]_vars

\* a recv has read a payload that is not all zero and stored SENDER; the
\* payload is still in the slot
C27_Witness ==
    /\ InOp("child", "recv") /\ pc["child"] = "ret"
    /\ stores[1].r = 1
    /\ Flag(1) = SENDER
    /\ Len(data["child"]) = PayloadSize
    /\ \E k \in 1 .. PayloadSize : data["child"][k] # 0
    /\ \A k \in 1 .. PayloadSize : mmap[1][k - 1] = data["child"][k]

----------------------------------------------------------------------------
(* The flag byte and the payload slot for every size of T *)

\* the state after Receiver::<T>::new(), new_sender() and fork() for a T of
\* 0 .. PayloadSize bytes: the parent makes ns sends, the child nr recvs
InitSizes ==
    \E S \in 0 .. PayloadSize, ns \in 0 .. MaxMsgs, nr \in 0 .. MaxMsgs :
        /\ mmap = [c \in {1} |-> Receiver_new(S)]
        /\ created = [c \in {1} |-> NewArgs(S, SENDER)]
        /\ script = [p \in Procs |->
                        IF p = "parent" THEN Repeat(SendOp(1), ns)
                        ELSE Repeat(RecvOp(1), nr)]
        /\ ip = [p \in Procs |-> 1]
        /\ pc = [p \in Procs |-> "call"]
        /\ data = [p \in Procs |-> <<>>]
        /\ off = [p \in Procs |-> 0]
        /\ called = [c \in {1} |-> <<>>]
        /\ sentRet = [c \in {1} |-> 0]
        /\ rcvd = [c \in {1} |-> <<>>]
        /\ stores = [c \in {1} |-> [s |-> 0, r |-> 0]]
        /\ wbuf = [p \in Procs |-> {}]
        /\ now = 0
        /\ signals = [q \in Procs |-> <<>>]
        /\ n = 0
        /\ procs = <<>>
        /\ args = <<>>

SpecSizes == InitSizes /\ [][Next]_vars

\* C28: for a T of any size S >= 0 the flag byte lies inside the mapping and
\* outside the payload slot [0..S); each byte the payload write of send stores
\* goes to an index of the slot and leaves the flag as it was; and the flag
\* byte changes only in a write_owner step, the flag store of send or recv.
C28_FlagOutsideSlot ==
    /\ [](\A c \in Chans :
             LET S == created[c].size
             IN  /\ owner_mut(mmap[c]) \in DOMAIN mmap[c]
                 /\ owner(mmap[c]) = owner_mut(mmap[c])
                 /\ owner_mut(mmap[c]) \notin 0 .. S - 1
                 /\ SizeOf(c) = S)
    /\ [][\A c \in Chans :
             LET S == created[c].size
                 flag == owner_mut(mmap[c])
             IN  /\ \A p \in Procs :
                       (send_write(p) /\ CurOp(p).ch = c) =>
                           /\ off[p] \in 0 .. S - 1
                           /\ \A i \in DOMAIN mmap[c] :
                                 i # off[p] => mmap'[c][i] = mmap[c][i]
                           /\ mmap'[c][flag] = mmap[c][flag]
                 /\ mmap'[c][flag] # mmap[c][flag] =>
                       \E p \in Procs :
                           /\ send_store(p) \/ recv_store(p)
                           /\ CurOp(p).ch = c
                           /\ \A i \in DOMAIN mmap[c] :
                                 i # flag => mmap'[c][i] = mmap[c][i]]_vars

\* a send of a T one byte smaller than the largest has written a payload
\* whose last byte is not zero, and the flag is still SENDER
C28_Witness ==
    /\ created[1].size = PayloadSize - 1
    /\ InOp("parent", "send") /\ pc["parent"] = "store"
    /\ off["parent"] = PayloadSize - 1
    /\ mmap[1][PayloadSize - 2] # 0
    /\ Flag(1) = SENDER

----------------------------------------------------------------------------
(* Rank 0 *)

\* the processes that have returned rank 0
RankZero == { i \in Returned : procs[i].info.rank = 0 }

\* C29: for every N >= 0 the root process returns rank 0 and every forked
\* process returns a rank >= 1: the parent arm of a fork leaves rank as it is
\* and the child arm adds at least 1 to it, so that once every process has
\* returned exactly one of them holds rank 0.
C29_OneRankZero ==
    /\ [](\A i \in Returned :
             /\ i = Root => procs[i].info.rank = 0
             /\ i \in Forked => procs[i].info.rank >= 1)
    /\ [](AllReturned => Cardinality(RankZero) = 1)
    /\ [][\A i \in Tree :
             /\ spawn_parent_arm(i) => procs'[i].rank = procs[i].rank
             /\ spawn_child_arm(i) => procs'[i].rank >= procs[i].rank + 1]_vars

\* spawn_processes(MaxN) has returned in every process: the root holds rank
\* 0, there are forked processes, and one of them holds rank 1
C29_Witness ==
    /\ n = MaxN /\ AllReturned
    /\ procs[Root].info.rank = 0
    /\ Forked # {}
    /\ \E i \in Forked : procs[i].info.rank = 1

----------------------------------------------------------------------------
(* wait_for_process: the parent of simple_transfer waits for its child *)

\* wait_for_process::<fn(&Process)>(pid, None)
WaitOp(pid) == [op |-> "wait_for_process", pid |-> pid, timeout |-> None]

\* the processes there are: sys.get_process(pid) is None for any other pid
Pids == Procs

\* the status the operating system holds for process q: a process that has
\* exited and was not waited for by its parent is a zombie
Status(q) == IF pc[q] \in {"exited", "panicked"} THEN "Zombie" ELSE "Run"

\* the arm of the fork has come to its end: the process exits
process_exit(p) ==
    /\ Finished(p) /\ pc[p] = "call"
    /\ pc' = [pc EXCEPT ![p] = "exited"]
    /\ UNCHANGED <<mmap, script, ip, data, off, called, sentRet, rcvd, stores, created, wbuf, spawnVars, osVars>>

\* what sys.get_process(pid) returns after a sys.refresh_all() made now: the
\* entry of pid with the status the refresh has read, or None
get_process(pid) == IF pid \in Pids THEN Some(Status(pid)) ELSE None

\* wait_for_process, lines 387-390: System::new(), sys.refresh_all(),
\* t1 = Instant::now() and sys.get_process(pid). data holds the locals of the
\* call, <<sys.get_process(pid), t1>>; with None the call is over
wait_for_process_refresh(p) ==
    /\ InOp(p, "wait_for_process") /\ pc[p] = "call"
    /\ data' = [data EXCEPT ![p] = <<get_process(CurOp(p).pid), now>>]
    /\ pc' = [pc EXCEPT ![p] = IF get_process(CurOp(p).pid) = None THEN "ret" ELSE "poll"]
    /\ UNCHANGED <<mmap, script, ip, off, called, sentRet, rcvd, stores, created, wbuf, spawnVars, osVars>>

\* wait_for_process, lines 393 and 401: while p.status().to_string() !=
\* "Zombie"; p.status() is the status held in p. The loop is left when it is
\* "Zombie"; with None for timeout a turn of the loop with another status
\* changes nothing.
wait_for_process_poll(p) ==
    /\ InOp(p, "wait_for_process") /\ pc[p] = "poll"
    /\ data[p][1] = Some("Zombie")
    /\ pc' = [pc EXCEPT ![p] = "ret"]
    /\ UNCHANGED <<mmap, script, ip, data, off, called, sentRet, rcvd, stores, created, wbuf, spawnVars, osVars>>

\* wait_for_process, line 404: the call returns
wait_for_process_return(p) ==
    /\ InOp(p, "wait_for_process") /\ pc[p] = "ret"
    /\ ip' = [ip EXCEPT ![p] = @ + 1]
    /\ pc' = [pc EXCEPT ![p] = "call"]
    /\ data' = [data EXCEPT ![p] = <<>>]
    /\ UNCHANGED <<mmap, script, off, called, sentRet, rcvd, stores, created, wbuf, spawnVars, osVars>>

wait_step(p) ==
    \/ process_exit(p)
    \/ wait_for_process_refresh(p)
    \/ wait_for_process_poll(p)
    \/ wait_for_process_return(p)

NextWait == \E p \in Procs : step(p) \/ wait_step(p)

\* simple_transfer, lines 228-239: the Parent arm ends with
\* wait_for_process(child, None)
ParentScriptWait == ParentScript \o <<WaitOp("child")>>

InitWait ==
    /\ mmap = [c \in 1 .. 3 |-> Receiver_new(TransferSize(c))]
    /\ script = [p \in Procs |-> IF p = "parent" THEN ParentScriptWait ELSE ChildScript]
    /\ ip = [p \in Procs |-> 1]
    /\ pc = [p \in Procs |-> "call"]
    /\ data = [p \in Procs |-> <<>>]
    /\ off = [p \in Procs |-> 0]
    /\ called = [c \in 1 .. 3 |-> <<>>]
    /\ sentRet = [c \in 1 .. 3 |-> 0]
    /\ rcvd = [c \in 1 .. 3 |-> <<>>]
    /\ stores = [c \in 1 .. 3 |-> [s |-> 0, r |-> 0]]
    /\ created = [c \in 1 .. 3 |-> NewArgs(TransferSize(c), SENDER)]
    /\ n = 0
    /\ procs = <<>>
    /\ args = <<>>
    /\ wbuf = [p \in Procs |-> {}]
    /\ now = 0
    /\ signals = [q \in Procs |-> <<>>]

\* each process goes on running: the scheduler gives each a turn
FairnessWait == \A p \in Procs : WF_vars(step(p) \/ wait_step(p))

SpecWait == InitWait /\ [][NextWait]_vars /\ FairnessWait

\* C30: wait_for_process(pid, None) returns once pid is a zombie, also when
\* pid becomes a zombie only after the call has started: whenever a process is
\* inside the call and pid is a zombie, the call later returns.
C30_WaitReturns ==
    \A p \in Procs :
        (InOp(p, "wait_for_process") /\ Status(CurOp(p).pid) = "Zombie")
            ~> ~InOp(p, "wait_for_process")

\* the call read the status of a child that was still running, the child has
\* become a zombie since, and the call is in its loop
C30_StuckOnSnapshot ==
    /\ InOp("parent", "wait_for_process") /\ pc["parent"] = "poll"
    /\ data["parent"][1] = Some("Run")
    /\ Status("child") = "Zombie"

\* the call read the status of a child that was a zombie already, and has
\* returned
C30_ReturnedForZombie ==
    /\ Finished("parent") /\ Status("child") = "Zombie"
    /\ Len(rcvd[3]) = 1

----------------------------------------------------------------------------
(* wait_for_process with a timeout, and kill_process as its action *)

\* the largest reading of the clock, and the largest timeout passed
MaxTime == 2

\* a pid that names no process
NoProcess == "nobody"

\* wait_for_process(pid, Some((timeout, &kill_process)))
WaitTimeoutOp(pid, timeout) ==
    [op |-> "wait_for_process", pid |-> pid, timeout |-> Some(timeout)]

\* time passes
clock_tick ==
    /\ now < MaxTime
    /\ now' = now + 1
    /\ UNCHANGED <<chanVars, spawnVars, signals>>

\* wait_for_process, lines 393-398: a turn of the loop, taken with a status
\* in p that is not "Zombie", in which (Instant::now() - t1) >= timeout:
\* action(&p) is called. A turn before the deadline changes nothing.
wait_for_process_deadline(p) ==
    /\ InOp(p, "wait_for_process") /\ pc[p] = "poll"
    /\ CurOp(p).timeout # None
    /\ data[p][1] # Some("Zombie")
    /\ now - data[p][2] >= CurOp(p).timeout[1]
    /\ pc' = [pc EXCEPT ![p] = "action"]
    /\ UNCHANGED <<mmap, script, ip, data, off, called, sentRet, rcvd, stores, created, wbuf, spawnVars, osVars>>

\* Process::kill(signal) on process q with the result ok: signals' and what
\* becomes of q. A signal that was accepted ends a process that has not ended.
Signal_Abort == "Abort"
Signal_Kill == "Kill"
Sent(q, signal, ok) == [signals EXCEPT ![q] = Append(@, [signal |-> signal, ok |-> ok])]
Struck(q, ok) == IF ok /\ Status(q) # "Zombie" THEN "exited" ELSE pc[q]

\* a kill_process that begins with the forceful signal
kill_process_kills_first(p) ==
    /\ InOp(p, "wait_for_process") /\ pc[p] = "action"
    /\ \E ok \in BOOLEAN :
          /\ signals' = Sent(CurOp(p).pid, Signal_Kill, ok)
          /\ pc' = [pc EXCEPT ![CurOp(p).pid] = Struck(CurOp(p).pid, ok),
                              ![p] = IF ok THEN "ret" ELSE "kill"]
    /\ UNCHANGED <<mmap, script, ip, data, off, called, sentRet, rcvd, stores, created, wbuf, spawnVars, now>>

\* kill_process, line 381: process.kill(Signal::Abort); when it returns true
\* kill_process returns, and wait_for_process breaks out of its loop
kill_process_abort(p) ==
    /\ InOp(p, "wait_for_process") /\ pc[p] = "action"
    /\ \E ok \in BOOLEAN :
          /\ signals' = Sent(CurOp(p).pid, Signal_Abort, ok)
          /\ pc' = [pc EXCEPT ![CurOp(p).pid] = Struck(CurOp(p).pid, ok),
                              ![p] = IF ok THEN "ret" ELSE "kill"]
    /\ UNCHANGED <<mmap, script, ip, data, off, called, sentRet, rcvd, stores, created, wbuf, spawnVars, now>>

\* kill_process, line 382: process.kill(Signal::Kill), its result dropped
kill_process_kill(p) ==
    /\ InOp(p, "wait_for_process") /\ pc[p] = "kill"
    /\ \E ok \in BOOLEAN :
          /\ signals' = Sent(CurOp(p).pid, Signal_Kill, ok)
          /\ pc' = [pc EXCEPT ![CurOp(p).pid] = Struck(CurOp(p).pid, ok),
                              ![p] = "ret"]
    /\ UNCHANGED <<mmap, script, ip, data, off, called, sentRet, rcvd, stores, created, wbuf, spawnVars, now>>

timeout_step(p) ==
    \/ wait_for_process_deadline(p)
    \/ kill_process_abort(p)
    \/ kill_process_kill(p)

NextTimeout ==
    \/ clock_tick
    \/ \E p \in Procs : step(p) \/ wait_step(p) \/ timeout_step(p)

\* bench_data_rate, lines 253-283, with one message: the parent holds the
\* Receiver and ends with wait_for_process(child, Some((timeout,
\* &kill_process))), the child holds the Sender. The pid passed is the
\* child's or one that names no process.
InitTimeout ==
    /\ mmap = [c \in {1} |-> Receiver_new(PayloadSize)]
    /\ created = [c \in {1} |-> NewArgs(PayloadSize, SENDER)]
    /\ \E pid \in {"child", NoProcess}, timeout \in 0 .. MaxTime :
          script = [p \in Procs |->
                       IF p = "parent" THEN <<RecvOp(1), WaitTimeoutOp(pid, timeout)>>
                       ELSE <<SendOp(1)>>]
    /\ ip = [p \in Procs |-> 1]
    /\ pc = [p \in Procs |-> "call"]
    /\ data = [p \in Procs |-> <<>>]
    /\ off = [p \in Procs |-> 0]
    /\ called = [c \in {1} |-> <<>>]
    /\ sentRet = [c \in {1} |-> 0]
    /\ rcvd = [c \in {1} |-> <<>>]
    /\ stores = [c \in {1} |-> [s |-> 0, r |-> 0]]
    /\ n = 0
    /\ procs = <<>>
    /\ args = <<>>
    /\ wbuf = [p \in Procs |-> {}]
    /\ now = 0
    /\ signals = [q \in Procs |-> <<>>]

SpecTimeout == InitTimeout /\ [][NextTimeout]_vars

\* the locals of a wait_for_process call that is past its refresh
InWait(p) == InOp(p, "wait_for_process") /\ pc[p] # "call"
WaitP(p) == data[p][1]
WaitT1(p) == data[p][2]

\* a call of action comes at or after the deadline and is the first of the
\* wait_for_process call
AtDeadline(p) ==
    wait_for_process_deadline(p) =>
        /\ now - WaitT1(p) >= CurOp(p).timeout[1]
        /\ signals[CurOp(p).pid] = <<>>

\* kill_process ends in the return of wait_for_process: a process that is
\* back from action takes no step but the return
ReturnsAfterAction(p) ==
    /\ (InOp(p, "wait_for_process") /\ pc[p] = "ret"
           /\ (step(p) \/ wait_step(p) \/ timeout_step(p))) =>
          wait_for_process_return(p)
    /\ (kill_process_abort(p) \/ kill_process_kill(p)) =>
          pc'[p] \in {"kill", "ret"}

\* a call that sees a zombie, or finds no process for pid, never calls action
NoActionForZombieOrNone ==
    \A p \in Procs :
        (InWait(p) /\ WaitP(p) \in {None, Some("Zombie")}) =>
            /\ pc[p] \notin {"action", "kill"}
            /\ CurOp(p).pid \in Pids => signals[CurOp(p).pid] = <<>>

\* the process a call waits for is not a zombie / was not one at the refresh
AliveNow(p) == Status(CurOp(p).pid) # "Zombie"
AliveAtRefresh(p) == WaitP(p) # Some("Zombie")

\* C31: wait_for_process(pid, Some((timeout, action))) calls action at most
\* once, only when the deadline has elapsed while the process was still not a
\* zombie, and returns right after the call of action; when it sees the
\* process as a zombie, or finds no process for pid, it never calls action.
C31_ActionAtDeadline ==
    /\ [][\A p \in Procs :
             /\ AtDeadline(p)
             /\ wait_for_process_deadline(p) => AliveNow(p)
             /\ ReturnsAfterAction(p)]_vars
    /\ []NoActionForZombieOrNone

\* the same with "not a zombie" read as: not a zombie in what the one refresh
\* of the call has read
C31_ActionOnSnapshot ==
    /\ [][\A p \in Procs :
             /\ AtDeadline(p)
             /\ wait_for_process_deadline(p) => AliveAtRefresh(p)
             /\ ReturnsAfterAction(p)]_vars
    /\ []NoActionForZombieOrNone

\* the deadline has passed for a call that read the status of a running
\* child, and the child has become a zombie since
C31_DeadlineOnZombie ==
    /\ InWait("parent") /\ pc["parent"] = "poll"
    /\ CurOp("parent").timeout = Some(MaxTime)
    /\ WaitP("parent") = Some("Run")
    /\ now - WaitT1("parent") >= MaxTime
    /\ Status("child") = "Zombie"

----------------------------------------------------------------------------
(* The order of the signals of kill_process *)

\* the signals sent to q so far, without their results
SignalsTo(q) == [i \in DOMAIN signals[q] |-> signals[q][i].signal]

\* a call of kill_process for q is between its two signals
BetweenSignals(q) ==
    \E p \in Procs : InOp(p, "wait_for_process") /\ pc[p] = "kill" /\ CurOp(p).pid = q

\* C32: kill_process sends Abort first, and sends Kill if and only if the
\* Abort was rejected: its first signal is Abort; a Kill follows an Abort that
\* returned false and nothing else; and once kill_process is over, Kill has been
\* sent exactly when the Abort returned false.
C32_AbortThenKill ==
    /\ [][\A p \in Procs :
             /\ kill_process_abort(p) =>
                   /\ signals[CurOp(p).pid] = <<>>
                   /\ SignalsTo(CurOp(p).pid)' = <<Signal_Abort>>
                   /\ pc'[p] = "kill" <=> ~signals'[CurOp(p).pid][1].ok
             /\ kill_process_kill(p) =>
                   /\ signals[CurOp(p).pid] = <<[signal |-> Signal_Abort, ok |-> FALSE]>>
                   /\ SignalsTo(CurOp(p).pid)' = <<Signal_Abort, Signal_Kill>>]_vars
    /\ [](\A q \in Procs :
             /\ SignalsTo(q) \in {<<>>, <<Signal_Abort>>, <<Signal_Abort, Signal_Kill>>}
             /\ (signals[q] # <<>> /\ ~BetweenSignals(q)) =>
                   (Len(signals[q]) = 2 <=> ~signals[q][1].ok))

\* kill_process has sent Abort, which was rejected, and then Kill, which was
\* accepted; wait_for_process has returned
C32_Witness ==
    /\ signals["child"] = <<[signal |-> Signal_Abort, ok |-> FALSE],
                            [signal |-> Signal_Kill, ok |-> TRUE]>>
    /\ Finished("parent")

\* kill_process has sent Abort, which was accepted, and wait_for_process has
\* returned: no Kill was sent
C32_AbortAccepted ==
    /\ signals["child"] = <<[signal |-> Signal_Abort, ok |-> TRUE]>>
    /\ Finished("parent")

====
